---------------------------- MODULE Spec2Model ----------------------------
(***************************************************************************)
(* Model of the resumable upload server (server.js).                       *)
(*                                                                         *)
(* server.js builds a tus Server over a FileStore (server.js:193-196) and   *)
(* routes every request under /files to tusServer.handle (server.js:250).   *)
(* The protocol handlers below (POST, PATCH, HEAD, DELETE) are what that    *)
(* call does with the options server.js passes: @tus/server's handlers,     *)
(* its default per-id MemoryLocker and @tus/file-store's FileStore, which   *)
(* keeps the partial file <id> and the record <id>.json in uploadDir and    *)
(* takes an upload's offset to be the length of its partial file.           *)
(* onUploadFinish, the deferred rename, sanitizeFilename, cleanupUpload     *)
(* and checkAvailableSpace are server.js's own code.                        *)
(*                                                                         *)
(* Four specifications share the module: Spec (the server under requests), *)
(* NameSpec (the naming code of onUploadFinish and cleanupUpload on its     *)
(* own), AppSpec (startServer, the limiter and tusHandler) and SweepSpec    *)
(* (scripts/cleanup.js beside a live server). Each leaves the variables of  *)
(* the others at rest.                                                      *)
(*                                                                         *)
(* Strings are sequences of one-character strings.                         *)
(***************************************************************************)
EXTENDS Integers, Sequences, FiniteSets, TLC

\* ------------------------------------------------------------ bounds
MaxUploads == 2      \* upload ids ever generated
MaxRequests == 4     \* requests ever received
MaxSlots == 2        \* chunk-append requests in flight at once

\* ------------------------------------------------------------ config
\* config.maxFileSize and config.minFreeSpace (MAX_FILE_SIZE=2, MIN_FREE_SPACE=1)
maxFileSize == 2
minFreeSpace == 1

\* config.allowedExtensions with ALLOWED_EXTENSIONS=j: the list ['j']
allowedExtensions == {<<"j">>}

Ids == 1 .. MaxUploads
Slots == 1 .. MaxSlots
Bytes == {"x"}

Min(a, b) == IF a < b THEN a ELSE b

\* ------------------------------------------------------------ strings
Digits == <<"1", "2", "3", "4", "5", "6", "7", "8", "9">>

\* upload.id: the name the tus server generates for the upload
IdName(id) == <<Digits[id]>>

JsonSuffix == <<".", "j", "s", "o", "n">>

UnnamedFile == <<"u", "n", "n", "a", "m", "e", "d", "_", "f", "i", "l", "e">>

\* the characters of the class [\/\\?%*:|"<>]
HostileChars == {"/", "\\", "?", "%", "*", ":", "|", "\"", "<", ">"}

Whitespace == {" "}

\* .replace(/[\/\\?%*:|"<>]/g, '-')
ReplaceHostile(s) == [i \in 1 .. Len(s) |-> IF s[i] \in HostileChars THEN "-" ELSE s[i]]

\* mutant: the sequence '..' is left in the name
ReplaceDotDot_keep(s) == s

\* .replace(/\.\./g, '-'): non-overlapping matches, left to right. In a run
\* of dots the matches start at the even distances from the start of the run;
\* a dot at an odd distance is the second dot of a match.
ReplaceDotDot(s) ==
    LET IsDot(i) == i >= 1 /\ i <= Len(s) /\ s[i] = "."
        RunStart(i) == CHOOSE j \in 1 .. i : (\A m \in j .. i : s[m] = ".") /\ ~IsDot(j - 1)
        marked == [i \in 1 .. Len(s) |->
                      IF ~IsDot(i) THEN s[i]
                      ELSE IF (i - RunStart(i)) % 2 = 1 THEN ""
                      ELSE IF IsDot(i + 1) THEN "-"
                      ELSE s[i]]
    IN  SelectSeq(marked, LAMBDA c : c # "")

RECURSIVE TrimStart(_)
TrimStart(s) ==
    IF s # <<>> /\ s[1] \in Whitespace THEN TrimStart(Tail(s)) ELSE s

RECURSIVE TrimEnd(_)
TrimEnd(s) ==
    IF s # <<>> /\ s[Len(s)] \in Whitespace THEN TrimEnd(SubSeq(s, 1, Len(s) - 1)) ELSE s

\* .trim()
Trim(s) == TrimEnd(TrimStart(s))

MaxNameChars == 255

\* .substring(0, 255)
Truncate(s) == SubSeq(s, 1, Min(Len(s), MaxNameChars))

sanitizeFilename(filename) ==
    IF filename = <<>> THEN UnnamedFile
    ELSE Truncate(Trim(ReplaceDotDot(ReplaceHostile(filename))))

\* index of the last "." of s, 0 when there is none
LastDot(s) ==
    LET dots == {i \in 1 .. Len(s) : s[i] = "."}
    IN  IF dots = {} THEN 0 ELSE CHOOSE i \in dots : \A j \in dots : j <= i

\* path.extname on a name without "/": from the last "." to the end; empty
\* when there is no ".", when the last "." is the first character, or when
\* the name is ".."
extname(s) ==
    LET d == LastDot(s) IN
    IF d = 0 \/ d = 1 THEN <<>>
    ELSE IF s[1] = "." /\ d = Len(s) /\ d = 2 THEN <<>>
    ELSE SubSeq(s, d, Len(s))

\* path.basename(name, ext) on a name without "/": the name less the suffix ext
basename(s, ext) ==
    IF ext # <<>> /\ Len(ext) <= Len(s)
    THEN IF ext = s THEN <<>>
         ELSE IF SubSeq(s, Len(s) - Len(ext) + 1, Len(s)) = ext
              THEN SubSeq(s, 1, Len(s) - Len(ext))
              ELSE s
    ELSE s

\* fileName of onUploadFinish: metaData?.filename ? sanitizeFilename(...) : 'unnamed_file'
FinishFileName(filename) ==
    IF filename # <<>> THEN sanitizeFilename(filename) ELSE UnnamedFile

\* mutant: the upload id is left out of the new name
NewFileName_noId(id, filename) == FinishFileName(filename)

\* newFileName of onUploadFinish
NewFileName(id, filename) ==
    LET fileName == FinishFileName(filename)
        extension == extname(fileName)
        baseName == basename(fileName, extension)
    IN  IF extension # <<>>
        THEN baseName \o <<"-", "-">> \o IdName(id) \o extension
        ELSE baseName \o <<"-", "-">> \o IdName(id)

\* metadataPath: oldFilePath + '.json'
MetaName(id) == IdName(id) \o JsonSuffix


\* ------------------------------------------------------------ state
VARIABLES
    dir,        \* config.uploadDir: entry name -> file
    nextId,     \* the next upload id the tus server generates
    patch,      \* the chunk-append requests in flight, by slot
    fin,        \* per upload, the callbacks onUploadFinish handed to setTimeout
    appended,   \* per upload, the bytes the store wrote, in the order written
    lastResp,   \* the response sent last
    nreq,       \* requests received so far
    job,        \* one run of the naming code of onUploadFinish or cleanupUpload
    proc,       \* the server process: where startServer is
    disk,       \* what startServer finds where its directories should be
    hits,       \* uploadCreationLimiter: requests counted per client key in the window
    reached,    \* per client key, the POSTs handed to tusHandler in the window
    lastReply,  \* who answered the last request under /files, and how
    uploadDir,  \* cleanup.js: UPLOAD_DIR, entry name -> what stat reports
    sweep       \* cleanup.js: where cleanupOldFiles is, and what it has done

\* the state of the server under requests, and the state beside it
serverVars == <<dir, nextId, patch, fin, appended, lastResp, nreq>>
nameVars == <<job>>
appVars == <<proc, disk, hits, reached, lastReply>>
sweepVars == <<uploadDir, sweep>>
besideServer == <<nameVars, appVars, sweepVars>>

vars == <<serverVars, nameVars, appVars, sweepVars>>

\* the partial file of an upload and the JSON record FileStore keeps beside it
DataFile(bytes) == [kind |-> "data", bytes |-> bytes, size |-> 0, filename |-> <<>>]
MetaFile(size, filename) == [kind |-> "meta", bytes |-> <<>>, size |-> size, filename |-> filename]

Exists(name) == name \in DOMAIN dir

\* fsPromises.unlink(name).catch(() => {}): an absent entry is left absent
Unlink(d, name) == [n \in (DOMAIN d) \ {name} |-> d[n]]

\* fsPromises.writeFile / FileStore.create: the entry holds f afterwards
PutFile(d, name, f) == [n \in (DOMAIN d) \cup {name} |-> IF n = name THEN f ELSE d[n]]

\* mutant: the file is copied to the new name and the old entry stays
Rename_copy(d, old, new) == PutFile(d, new, d[old])

\* fsPromises.rename(old, new): new holds what old held, old is gone
Rename(d, old, new) ==
    [n \in ((DOMAIN d) \ {old}) \cup {new} |-> IF n = new THEN d[old] ELSE d[n]]

\* FileStore.getUpload: the upload is known while its record exists and its
\* partial file can be stat'ed; its offset is the length of the partial file
UploadKnown(id) == Exists(MetaName(id)) /\ Exists(IdName(id))
Offset(id) == Len(dir[IdName(id)].bytes)
Size(id) == dir[MetaName(id)].size
Completed(id) == UploadKnown(id) /\ Offset(id) = Size(id)

\* ------------------------------------------------------------ inputs
\* the Upload-Length header of a creation request: <<>> when it is missing
LengthHeaders == {<<>>} \cup {<<n>> : n \in -1 .. maxFileSize + 1}

\* the filename of Upload-Metadata: <<>> when none is supplied
ClientNames == {<<>>, <<"/", ".", "t">>}

\* a free-space sample: -1 when the probe throws, else the bytes free, below
\* and at the floor
FreeSamples == {-1, minFreeSpace - 1, minFreeSpace}

\* chunk bodies of a chunk-append request
RECURSIVE SeqsUpTo(_, _)
SeqsUpTo(S, n) ==
    IF n = 0 THEN {<<>>}
    ELSE LET shorter == SeqsUpTo(S, n - 1)
         IN  shorter \cup {Append(q, b) : q \in shorter, b \in S}

Chunks == SeqsUpTo(Bytes, maxFileSize)

\* ------------------------------------------------------------ helpers
\* checkAvailableSpace: false when the probe throws or free < minFreeSpace
checkAvailableSpace(free) ==
    IF free < 0 THEN FALSE
    ELSE IF free < minFreeSpace THEN FALSE ELSE TRUE

\* mutant: only the partial file is unlinked, the record is left behind
cleanupUpload_fileOnly(d, id) == Unlink(d, IdName(id))

\* cleanupUpload: unlink the partial file and the record, ignoring failures
cleanupUpload(d, id) == Unlink(Unlink(d, IdName(id)), MetaName(id))

\* onUploadFinish: setTimeout(..., 500) with the upload object in its closure
onUploadFinish(f, id, filename) ==
    [f EXCEPT ![id] = Append(@, [pc |-> "timer", filename |-> filename])]

\* a response: the method answered, the status and, for a 500, what failed
Resp(method, status) == [method |-> method, status |-> status, error |-> ""]
Failed(method, error) == [method |-> method, status |-> 500, error |-> error]

NoResp == Resp("none", 0)

IdleSlot == [pc |-> "idle", id |-> 0, off |-> 0, data |-> <<>>, size |-> 0,
             filename |-> <<>>]

\* MemoryLocker: the lock of an upload id is held by the request that took it
Holds(r, id) == patch[r].id = id /\ patch[r].pc = "writing"

\* mutant: the lock is never found taken
LockFree_always(id) == TRUE

LockFree(id) == \A r \in Slots : ~Holds(r, id)

\* maxSize: config.maxFileSize
maxSize == maxFileSize

\* no naming code is running
NoJob == [pc |-> "none", uploadId |-> 0, filename |-> << >>, fileName |-> << >>,
          newFileName |-> << >>, filePath |-> << >>, metadataPath |-> << >>]

\* the client keys of the limiter (req.ip)
ClientKeys == {"a", "b"}

\* the directories are there and writable, the server listens, nothing was
\* counted or answered yet
ReadyDisk == [logsDir |-> "present", uploadDir |-> "present", writable |-> TRUE,
              removable |-> TRUE, testFile |-> FALSE]
NoReply == [method |-> "none", sender |-> "none", status |-> 0, writes |-> 0, thrown |-> FALSE]
AppIdle ==
    /\ proc = "listening"
    /\ disk = ReadyDisk
    /\ hits = [c \in ClientKeys |-> 0]
    /\ reached = [c \in ClientKeys |-> 0]
    /\ lastReply = NoReply

NameIdle == job = NoJob

\* cleanup.js is not running
NoSweep == [pc |-> "none", files |-> {}, todo |-> {}, deleted |-> {}, listed |-> << >>]
SweepIdle == uploadDir = << >> /\ sweep = NoSweep

\* the server after construction: an empty upload directory, no request yet
ServerInit ==
    /\ dir = << >>
    /\ nextId = 1
    /\ patch = [r \in Slots |-> IdleSlot]
    /\ fin = [id \in Ids |-> << >>]
    /\ appended = [id \in Ids |-> << >>]
    /\ lastResp = NoResp
    /\ nreq = 0

Init ==
    /\ ServerInit
    /\ NameIdle
    /\ AppIdle
    /\ SweepIdle

\* ------------------------------------------------------------ POST
\* mutant: the declared size is not measured against maxSize
LengthStatus_noMax(len) ==
    IF len = <<>> THEN 400
    ELSE IF len[1] < 0 THEN 412
    ELSE 201

\* The Upload-Length a creation request must carry: a non-negative integer
\* (the tus header rule) that does not exceed maxSize.
LengthStatus(len) ==
    IF len = <<>> THEN 400
    ELSE IF len[1] < 0 THEN 412
    ELSE IF maxSize > 0 /\ len[1] > maxSize THEN 413
    ELSE 201

\* POST /files: tusHandler -> tusServer.handle; the response status is
\* LengthStatus(len). free is what a disk-space probe would report while the
\* request is handled: the handler makes none.
Create(len, filename, free) ==
    /\ nreq < MaxRequests
    /\ nreq' = nreq + 1
    /\ lastResp' = Resp("POST", LengthStatus(len))
    /\ IF LengthStatus(len) # 201
       THEN UNCHANGED <<dir, nextId, fin>>
       ELSE /\ nextId <= MaxUploads
            /\ dir' = PutFile(PutFile(dir, IdName(nextId), DataFile(<<>>)),
                              MetaName(nextId), MetaFile(len[1], filename))
            /\ nextId' = nextId + 1
            /\ fin' = IF len[1] = 0 THEN onUploadFinish(fin, nextId, filename) ELSE fin
    /\ UNCHANGED <<patch, appended>>
    /\ UNCHANGED besideServer

\* ------------------------------------------------------------ PATCH
\* mutant: a request below the upload's offset is let through
OffsetMatches_atMost(offset, declared) == declared <= offset

\* the Upload-Offset of the request must be the upload's offset
OffsetMatches(offset, declared) == offset = declared

\* mutant: the body is never measured against the declared size
SizeExceeded_never(offset, length, size) == FALSE

\* the body must fit in what is left of the declared size
SizeExceeded(offset, length, size) == offset + length > size

\* under the lock: getUpload, then the offset and size checks
CheckStatus(id, off, data) ==
    IF ~Exists(MetaName(id)) THEN 404
    ELSE IF ~Exists(IdName(id)) THEN 410
    ELSE IF ~OffsetMatches(Offset(id), off) THEN 409
    ELSE IF SizeExceeded(Offset(id), Len(data), Size(id)) THEN 413
    ELSE 204

\* PATCH /files/<id> with Upload-Offset off and the body data: the handler
\* takes the lock of the upload id, reads the upload and checks the request;
\* a request whose CheckStatus is not 204 releases the lock and is answered
\* with that status at once
PatchStart(r, id, off, data) ==
    /\ patch[r].pc = "idle"
    /\ \A q \in Slots : q < r => patch[q].pc # "idle"
    /\ LockFree(id)
    /\ nreq < MaxRequests
    /\ nreq' = nreq + 1
    /\ IF CheckStatus(id, off, data) # 204
       THEN /\ UNCHANGED patch
            /\ lastResp' = Resp("PATCH", CheckStatus(id, off, data))
       ELSE /\ patch' = [patch EXCEPT ![r] =
                           [pc |-> "writing", id |-> id, off |-> off, data |-> data,
                            size |-> Size(id), filename |-> dir[MetaName(id)].filename]]
            /\ UNCHANGED lastResp
    /\ UNCHANGED <<dir, nextId, fin, appended>>
    /\ UNCHANGED besideServer

\* acquireLock gives up while another request holds the lock of the upload
\* id: the request is answered with an error and touches nothing
LockTimeout(id) ==
    /\ nreq < MaxRequests
    /\ nreq' = nreq + 1
    /\ ~LockFree(id)
    /\ lastResp' = Failed("PATCH", "lock")
    /\ UNCHANGED <<dir, nextId, patch, fin, appended>>
    /\ UNCHANGED besideServer

\* FileStore.write: a write stream opened on the partial file at position off
WriteAt(bytes, off, written) ==
    SubSeq(bytes, 1, off) \o written \o SubSeq(bytes, off + Len(written) + 1, Len(bytes))

\* whether the handler calls onUploadFinish after a write
IsFinal(newOffset, size) == newOffset = size

\* The rest of the PATCH handler. The store writes the first k bytes of the
\* body: all of it, unless the request is cut short, which ends it with an
\* error. Opening the stream fails when the partial file is gone. The lock is
\* released; after a whole write the handler calls onUploadFinish when the
\* new offset is the size, and answers 204 with the new offset.
Write(r, k) ==
    /\ patch[r].pc = "writing"
    /\ k \in 0 .. Len(patch[r].data)
    /\ patch' = [patch EXCEPT ![r] = IdleSlot]
    /\ LET id == patch[r].id
           written == SubSeq(patch[r].data, 1, k)
       IN  IF ~Exists(IdName(id))
           THEN /\ UNCHANGED <<dir, appended, fin>>
                /\ lastResp' = Failed("PATCH", "write")
           ELSE /\ lastResp' = IF k = Len(patch[r].data) THEN Resp("PATCH", 204)
                                ELSE Failed("PATCH", "aborted")
                /\ dir' = [dir EXCEPT ![IdName(id)].bytes = WriteAt(@, patch[r].off, written)]
                /\ appended' = [appended EXCEPT ![id] = @ \o written]
                /\ fin' = IF k = Len(patch[r].data) /\ IsFinal(patch[r].off + k, patch[r].size)
                          THEN onUploadFinish(fin, id, patch[r].filename)
                          ELSE fin
    /\ UNCHANGED <<nextId, nreq>>
    /\ UNCHANGED besideServer

\* ------------------------------------------------------------ HEAD, DELETE
\* the deferred rename of a finished upload is scheduled and has not run yet
InWindow(id) ==
    /\ fin[id] # << >>
    /\ \A k \in 1 .. Len(fin[id]) : fin[id][k].pc = "timer"

\* what HEAD /files/<id> answers: getUpload, then the offset and the size
HeadResponse(id) ==
    IF ~Exists(MetaName(id)) THEN [status |-> 404, offset |-> 0, size |-> 0]
    ELSE IF ~Exists(IdName(id)) THEN [status |-> 410, offset |-> 0, size |-> 0]
    ELSE [status |-> 200, offset |-> Offset(id), size |-> Size(id)]

\* HEAD /files/<id>: getUpload under the lock, answered with HeadResponse(id)
HeadStatus(id) ==
    /\ nreq < MaxRequests
    /\ nreq' = nreq + 1
    /\ LockFree(id)
    /\ lastResp' = Resp("HEAD", HeadResponse(id).status)
    /\ UNCHANGED <<dir, nextId, patch, fin, appended>>
    /\ UNCHANGED besideServer

\* FileStore.remove: unlink the partial file, then delete the record; when
\* the partial file is absent the record is left alone
StoreRemove(d, id) ==
    IF IdName(id) \in DOMAIN d THEN Unlink(Unlink(d, IdName(id)), MetaName(id)) ELSE d

\* DELETE /files/<id>: store.remove under the lock; 204, or 404 when the
\* partial file is absent
DeleteUpload(id) ==
    /\ nreq < MaxRequests
    /\ nreq' = nreq + 1
    /\ LockFree(id)
    /\ lastResp' = Resp("DELETE", IF Exists(IdName(id)) THEN 204 ELSE 404)
    /\ dir' = StoreRemove(dir, id)
    /\ UNCHANGED <<nextId, patch, fin, appended>>
    /\ UNCHANGED besideServer

\* ------------------------------------------------------------ deferred rename
\* The callback of setTimeout. It computes the names, stats oldFilePath,
\* renames it to newFilePath and unlinks metadataPath; when the stat or the
\* rename throws, the catch branch runs cleanupUpload. statOk and renameOk
\* are false when the call fails although the file is there.
RunRename(id, k, statOk, renameOk) ==
    /\ k \in 1 .. Len(fin[id])
    /\ fin[id][k].pc = "timer"
    /\ IF Exists(IdName(id)) /\ statOk /\ renameOk
       THEN /\ dir' = Unlink(Rename(dir, IdName(id), NewFileName(id, fin[id][k].filename)),
                             MetaName(id))
            /\ fin' = [fin EXCEPT ![id][k].pc = "renamed"]
       ELSE /\ dir' = cleanupUpload(dir, id)
            /\ fin' = [fin EXCEPT ![id][k].pc = "cleaned"]
    /\ UNCHANGED <<nextId, patch, appended, lastResp, nreq>>
    /\ UNCHANGED besideServer

\* ------------------------------------------------------------ specification
Next ==
    \/ \E len \in LengthHeaders, filename \in ClientNames, free \in FreeSamples :
          Create(len, filename, free)
    \/ \E r \in Slots, id \in Ids, off \in 0 .. maxFileSize, data \in Chunks :
          PatchStart(r, id, off, data)
    \/ \E id \in Ids : LockTimeout(id)
    \/ \E r \in Slots, k \in 0 .. maxFileSize : Write(r, k)
    \/ \E id \in Ids : HeadStatus(id)
    \/ \E id \in Ids : DeleteUpload(id)
    \/ \E id \in Ids, k \in 1 .. MaxRequests, statOk \in BOOLEAN, renameOk \in BOOLEAN :
          RunRename(id, k, statOk, renameOk)

Spec == Init /\ [][Next]_vars


\* ------------------------------------------------------------ claims
\* no slot is writing to the upload, read off the requests in flight
NoWriter(id) == \A r \in Slots : ~(patch[r].pc = "writing" /\ patch[r].id = id)

\* C1: while an upload is known its offset lies between 0 and its declared
\* size, and no step of any request or callback lowers the offset or changes
\* the declared size.
C1_OffsetMonotone ==
    [][\A id \in Ids :
          UploadKnown(id)' =>
             /\ 0 <= Offset(id)'
             /\ Offset(id)' <= Size(id)'
             /\ UploadKnown(id) => Offset(id)' >= Offset(id) /\ Size(id)' = Size(id)]_vars

\* an upload of the largest size has been filled to its declared size
C1_Witness ==
    \E id \in Ids : UploadKnown(id) /\ Size(id) = maxFileSize /\ Offset(id) = Size(id)

\* what every step of PatchStart does whatever the request is: the steps
\* that differ are no start of a PATCH
PatchStep ==
    /\ nreq' = nreq + 1
    /\ UNCHANGED <<dir, nextId, fin, appended>>
    /\ lastResp' = lastResp \/ lastResp'.method = "PATCH"

\* C2: a chunk-append whose Upload-Offset is not the upload's offset, lower
\* or higher, is answered 409 and leaves the directory (so the offset and
\* the partial file), the requests in flight and the scheduled callbacks
\* as they were.
C2_MismatchRejected ==
    [][PatchStep =>
          \A id \in Ids, off \in 0 .. maxFileSize :
             (UploadKnown(id) /\ off # Offset(id)) =>
                \A r \in Slots, data \in Chunks :
                   PatchStart(r, id, off, data) =>
                      /\ lastResp' = Resp("PATCH", 409)
                      /\ dir' = dir
                      /\ patch' = patch
                      /\ fin' = fin
                      /\ appended' = appended]_vars

\* a chunk-append was answered 409 while an upload is part way through
C2_Witness ==
    /\ lastResp = Resp("PATCH", 409)
    /\ \E id \in Ids : UploadKnown(id) /\ 0 < Offset(id) /\ Offset(id) < Size(id)

\* C3: at most one request writes to the partial file of an upload id at any
\* moment; the partial file (and the file it is renamed to) is the
\* concatenation of the bytes written, in order; and an append on an upload
\* nobody writes to can start whatever the other uploads are doing.
C3_OneWriterPerUpload ==
    \A id \in Ids :
       /\ Cardinality({r \in Slots : patch[r].pc = "writing" /\ patch[r].id = id}) <= 1
       /\ Exists(IdName(id)) => dir[IdName(id)].bytes = appended[id]
       /\ (UploadKnown(id) /\ NoWriter(id) /\ nreq < MaxRequests
             /\ \E r \in Slots : patch[r].pc = "idle")
          => ENABLED (\E r \in Slots : /\ PatchStart(r, id, Offset(id), << >>)
                                        /\ patch'[r].pc = "writing")

\* two requests write at once, to different uploads
C3_Witness ==
    \E r1 \in Slots, r2 \in Slots :
       /\ patch[r1].pc = "writing"
       /\ patch[r2].pc = "writing"
       /\ patch[r1].id # patch[r2].id

\* C4: the deferred rename of an upload is scheduled once when the offset
\* reaches the declared size: never while the offset is below the size, and
\* never a second time for the same upload.
C4_ScheduledOnce ==
    \A id \in Ids :
       /\ Len(fin[id]) <= 1
       /\ (UploadKnown(id) /\ Offset(id) < Size(id)) => fin[id] = << >>
       /\ Completed(id) => fin[id] # << >>

\* C5: a creation request that arrives while the free space is below
\* minFreeSpace (or cannot be probed) is not answered 201 and creates
\* neither a partial file nor a record.
C5_LowSpaceRejected ==
    [][\A len \in LengthHeaders, filename \in ClientNames, free \in FreeSamples :
          (Create(len, filename, free) /\ ~checkAvailableSpace(free)) =>
             /\ lastResp'.status # 201
             /\ dir' = dir]_vars

PublicName(id, filename) ==
    IF filename = << >>
    THEN UnnamedFile \o <<"-", "-">> \o IdName(id)
    ELSE LET s == sanitizeFilename(filename)
         IN  basename(s, extname(s)) \o <<"-", "-">> \o IdName(id) \o extname(s)

\* the entries of the upload directory that belong to an upload
OwnNames(id) ==
    {IdName(id), MetaName(id)} \cup {PublicName(id, f) : f \in ClientNames}

\* C7: once a deferred rename of an upload has succeeded, the directory
\* holds exactly one entry of that upload; it is named
\* '<sanitizedBaseName>--<id><ext>' ('unnamed_file--<id>' without a client
\* filename) and holds the bytes written to the partial file, and neither
\* the id-named partial file nor the '<id>.json' record is left.
C7_RenamedFile ==
    \A id \in Ids : \A k \in 1 .. Len(fin[id]) :
       fin[id][k].pc = "renamed" =>
          /\ NewFileName(id, fin[id][k].filename) = PublicName(id, fin[id][k].filename)
          /\ Exists(PublicName(id, fin[id][k].filename))
          /\ dir[PublicName(id, fin[id][k].filename)].bytes = appended[id]
          /\ ~Exists(IdName(id))
          /\ ~Exists(MetaName(id))
          /\ {n \in OwnNames(id) : Exists(n)} = {PublicName(id, fin[id][k].filename)}

\* an upload named '/.t' with every byte written was renamed to '---1.t' or
\* '---2.t', and an upload without a name to 'unnamed_file--<id>'
C7_Witness ==
    /\ \E id \in Ids :
          /\ fin[id] # << >>
          /\ fin[id][1].pc = "renamed"
          /\ Exists(<<"-", "-", "-">> \o IdName(id) \o <<".", "t">>)
          /\ Len(appended[id]) > 0
    /\ \E id \in Ids :
          /\ fin[id] # << >>
          /\ fin[id][1].pc = "renamed"
          /\ Exists(UnnamedFile \o <<"-", "-">> \o IdName(id))

\* a PATCH on an upload is accepted
PatchAccepted(id) ==
    \E r \in Slots : PatchStart(r, id, Offset(id), << >>) /\ patch'[r].pc = "writing"

C9_CompletedIsFinal ==
    [][/\ \A id \in Ids :
             (DeleteUpload(id) /\ Completed(id)) => dir' = dir
       /\ \A id \in Ids, k \in 1 .. MaxRequests :
             (RunRename(id, k, TRUE, TRUE) /\ Len(fin[id]) = 1)
                => fin'[id][k].pc = "renamed"]_vars

\* C10: a HEAD changes neither the directory nor the requests in flight nor
\* the scheduled callbacks, and a HEAD on an upload whose deferred rename is
\* scheduled and has not run is answered 200 with offset equal to size.
C10_StatusQueryInWindow ==
    [][\A id \in Ids :
          HeadStatus(id) =>
             /\ dir' = dir
             /\ patch' = patch
             /\ fin' = fin
             /\ appended' = appended
             /\ InWindow(id) =>
                   /\ lastResp' = Resp("HEAD", 200)
                   /\ HeadResponse(id).offset = HeadResponse(id).size]_vars

\* an extension the allow-list admits, written there with or without its dot
Permitted(ext) == ext \in allowedExtensions \/ Tail(ext) \in allowedExtensions

\* C11: with an extension allow-list configured, no completed upload is
\* renamed to a file whose extension is outside the list.
C11_AllowListEnforced ==
    \A id \in Ids : \A k \in 1 .. Len(fin[id]) :
       LET newFileName == NewFileName(id, fin[id][k].filename)
       IN  (fin[id][k].pc = "renamed" /\ Exists(newFileName) /\ extname(newFileName) # << >>)
              => Permitted(extname(newFileName))

\* ======================================================================
\* The naming code on its own: one run of lines 204-218 of onUploadFinish,
\* or of lines 118-119 of cleanupUpload, for an upload id and a client
\* filename drawn from Names.
MaxNameLen == 3

\* the characters client filenames are made of: a hostile one, the dot,
\* white space, and the characters the new name itself is built with
NameChars == {"/", ".", " ", "-", "1"}

\* a name longer than sanitizeFilename keeps, with '..' and '/' in it
LongName == <<".", ".", "/">> \o [i \in 1 .. MaxNameChars |-> "a"]

\* the client filenames tried: <<>> stands for no filename in the metadata
Names ==
    SeqsUpTo(NameChars, MaxNameLen) \cup {LongName, <<"\\", "?", ".", "1">>, MetaName(1)}

\* const fileName = metaData?.filename ? sanitizeFilename(...) : 'unnamed_file'
PickFileName ==
    /\ job.pc = "start"
    /\ job' = [job EXCEPT !.pc = "named", !.fileName = FinishFileName(job.filename)]
    /\ UNCHANGED <<serverVars, appVars, sweepVars>>

\* extension, baseName, newFileName, oldFilePath, newFilePath, metadataPath
BuildNewFileName ==
    /\ job.pc = "named"
    /\ job' = [job EXCEPT !.pc = "built",
                          !.newFileName = NewFileName(job.uploadId, job.filename),
                          !.filePath = IdName(job.uploadId),
                          !.metadataPath = MetaName(job.uploadId)]
    /\ UNCHANGED <<serverVars, appVars, sweepVars>>

\* filePath and metadataPath of cleanupUpload
CleanupPaths ==
    /\ job.pc = "start"
    /\ job' = [job EXCEPT !.pc = "cleanup",
                          !.filePath = IdName(job.uploadId),
                          !.metadataPath = MetaName(job.uploadId)]
    /\ UNCHANGED <<serverVars, appVars, sweepVars>>

NameInit ==
    /\ ServerInit
    /\ AppIdle
    /\ SweepIdle
    /\ job \in {[NoJob EXCEPT !.pc = "start", !.uploadId = id, !.filename = f] :
                   id \in Ids, f \in Names}

NameNext ==
    \/ PickFileName
    \/ BuildNewFileName
    \/ CleanupPaths

NameSpec == NameInit /\ [][NameNext]_vars

\* the sanitizing steps of sanitizeFilename, applied whatever the name is
Sanitized(filename) == Truncate(Trim(ReplaceDotDot(ReplaceHostile(filename))))

\* C12: when sanitizing a client filename leaves the empty string, the name
\* the rename target is built from is 'unnamed_file'; that name is never
\* empty.
C12_PlaceholderForEmpty ==
    job.pc \in {"named", "built"} =>
       /\ Sanitized(job.filename) = << >> => job.fileName = UnnamedFile
       /\ job.fileName # << >>

HasDotDot(s) == \E i \in 1 .. Len(s) - 1 : s[i] = "." /\ s[i + 1] = "."

\* a name that path.join(uploadDir, name) keeps directly inside uploadDir
InsideUploadDir(name) ==
    /\ name # << >>
    /\ name \notin {<<".">>, <<".", ".">>}
    /\ \A i \in 1 .. Len(name) : name[i] \notin {"/", "\\"}

\* C13: for every client filename the sanitized name holds none of the
\* characters / \ ? % * : | " < >, no '..', and at most 255 characters, and
\* the rename target built from it is an entry directly inside uploadDir.
C13_SanitizedName ==
    /\ job.pc \in {"named", "built"} =>
          /\ \A i \in 1 .. Len(job.fileName) : job.fileName[i] \notin HostileChars
          /\ ~HasDotDot(job.fileName)
          /\ Len(job.fileName) <= MaxNameChars
    /\ job.pc = "built" => InsideUploadDir(job.newFileName)

\* the target of a name of 258 characters that starts with '../' was built
C13_Witness ==
    /\ job.pc = "built"
    /\ job.filename = LongName
    /\ HasDotDot(job.filename)
    /\ Len(job.fileName) = MaxNameChars

\* every path that belongs to an upload: its partial file, its record and
\* the file it is renamed to
OwnedPaths(id, filename) == {IdName(id), MetaName(id), NewFileName(id, filename)}

\* C19: the paths a rename callback or a cleanup of one upload touches (the
\* old path, the new path and the record path) are none of the paths that
\* belong to an upload with another id, whatever the two client filenames.
C19_PathsPartitioned ==
    /\ job.pc = "built" =>
          \A other \in Ids \ {job.uploadId}, g \in Names :
             {job.newFileName, job.filePath, job.metadataPath} \cap OwnedPaths(other, g) = {}
    /\ job.pc = "cleanup" =>
          \A other \in Ids \ {job.uploadId}, g \in Names :
             {job.filePath, job.metadataPath} \cap OwnedPaths(other, g) = {}

\* upload 2 was given the name of the record of upload 1, '1.json', and its
\* rename target was built: '1--2.json'
C19_Witness ==
    /\ job.pc = "built"
    /\ job.uploadId = 2
    /\ job.filename = MetaName(1)
    /\ job.newFileName = <<"1", "-", "-", "2">> \o JsonSuffix

\* ======================================================================
\* The process from startServer on, and the route /files: the limiter in
\* front of tusHandler.

\* rateLimit({max: 50}); the model counts a client's hits up to max + MaxOver
max == 50
MaxOver == 1

Methods == {"POST", "PATCH", "HEAD", "DELETE"}

\* what tusServer.handle does with a request: it answers; it throws before
\* any header was sent; it throws after it sent the headers
Outcomes == {"answers", "throwsEarly", "throwsLate"}

\* ensureLogsDir: access(logsDir), else mkdir; a failing mkdir rejects
\* startServer, and the unhandled rejection ends the process
EnsureLogsDir ==
    /\ proc = "ensureLogsDir"
    /\ IF disk.logsDir = "blocked"
       THEN proc' = "stopped" /\ UNCHANGED disk
       ELSE proc' = "ensureUploadDir" /\ disk' = [disk EXCEPT !.logsDir = "present"]
    /\ UNCHANGED <<hits, reached, lastReply, serverVars, nameVars, sweepVars>>

\* mutant: a failed write test is logged and not thrown again
WriteTestThrows_never(d) == FALSE

\* the write test of ensureUploadDir throws when writeFile or unlink fails
WriteTestThrows(d) == ~d.writable \/ ~d.removable

\* ensureUploadDir: access(uploadDir), else mkdir; then writeFile and unlink
\* of '.write-test'; the catch logs and throws again
EnsureUploadDir ==
    /\ proc = "ensureUploadDir"
    /\ IF disk.uploadDir = "blocked"
       THEN proc' = "stopped" /\ UNCHANGED disk
       ELSE /\ disk' = [disk EXCEPT !.uploadDir = "present",
                                    !.testFile = disk.writable /\ ~disk.removable]
            /\ proc' = IF WriteTestThrows(disk) THEN "stopped" ELSE "listen"
    /\ UNCHANGED <<hits, reached, lastReply, serverVars, nameVars, sweepVars>>

\* http.createServer(app).listen(config.port, config.host)
Listen ==
    /\ proc = "listen"
    /\ proc' = "listening"
    /\ UNCHANGED <<disk, hits, reached, lastReply, serverVars, nameVars, sweepVars>>

\* mutant: the limiter skips nothing
skip_never(method) == FALSE

\* skip: (req) => req.method !== 'POST'
skip(method) == method # "POST"

\* the limiter answers 429 when the hit it has just counted exceeds max
Limited(method, counted) == ~skip(method) /\ counted + 1 > max

\* mutant: the catch branch answers whatever was sent before
SendsError_always(headersSent) == TRUE

\* if (!res.headersSent) res.status(500).json(...)
SendsError(headersSent) == ~headersSent

\* tusHandler: await tusServer.handle(req, res) inside try/catch. status is 0
\* for an answer of the tus server itself, writes counts the response heads
\* written for the request.
tusHandler(method, outcome) ==
    LET headersSent == outcome # "throwsEarly"
        thrown == outcome # "answers"
        written == IF headersSent THEN 1 ELSE 0
    IN  IF thrown /\ SendsError(headersSent)
        THEN [method |-> method, sender |-> "tusHandler", status |-> 500,
              writes |-> written + 1, thrown |-> TRUE]
        ELSE [method |-> method, sender |-> "tusServer", status |-> 0,
              writes |-> written, thrown |-> thrown]

\* a request under /files: uploadCreationLimiter, then tusHandler
Request(client, method, outcome) ==
    /\ proc = "listening"
    /\ skip(method) \/ hits[client] < max + MaxOver
    /\ hits' = IF skip(method) THEN hits ELSE [hits EXCEPT ![client] = @ + 1]
    /\ IF Limited(method, hits[client])
       THEN /\ lastReply' = [method |-> method, sender |-> "limiter", status |-> 429,
                             writes |-> 1, thrown |-> FALSE]
            /\ UNCHANGED reached
       ELSE /\ lastReply' = tusHandler(method, outcome)
            /\ reached' = IF method = "POST" THEN [reached EXCEPT ![client] = @ + 1]
                          ELSE reached
    /\ UNCHANGED <<proc, disk, serverVars, nameVars, sweepVars>>

\* windowMs has passed for a client key: its count starts again
WindowReset(client) ==
    /\ proc = "listening"
    /\ hits[client] > 0
    /\ hits' = [hits EXCEPT ![client] = 0]
    /\ reached' = [reached EXCEPT ![client] = 0]
    /\ UNCHANGED <<proc, disk, lastReply, serverVars, nameVars, sweepVars>>

\* startServer() is called on a disk in any state
AppInit ==
    /\ ServerInit
    /\ NameIdle
    /\ SweepIdle
    /\ proc = "ensureLogsDir"
    /\ disk \in [logsDir : {"present", "absent", "blocked"},
                 uploadDir : {"present", "absent", "blocked"},
                 writable : BOOLEAN, removable : BOOLEAN, testFile : {FALSE}]
    /\ hits = [c \in ClientKeys |-> 0]
    /\ reached = [c \in ClientKeys |-> 0]
    /\ lastReply = NoReply

AppNext ==
    \/ EnsureLogsDir
    \/ EnsureUploadDir
    \/ Listen
    \/ \E client \in ClientKeys, method \in Methods, outcome \in Outcomes :
          Request(client, method, outcome)
    \/ \E client \in ClientKeys : WindowReset(client)

AppSpec == AppInit /\ [][AppNext]_vars

\* C14: of the POSTs a client key sends in one window at most max are handed
\* to tusHandler and the others are answered 429; a PATCH, HEAD or DELETE is
\* never counted and is always handed to tusHandler, whatever the counts.
C14_CreateLimited ==
    [][\A client \in ClientKeys, method \in Methods, outcome \in Outcomes :
          Request(client, method, outcome) =>
             IF method = "POST"
             THEN /\ reached'[client] <= max
                  /\ hits[client] >= max =>
                        /\ lastReply'.sender = "limiter"
                        /\ lastReply'.status = 429
                        /\ reached' = reached
                  /\ hits[client] < max => lastReply'.sender # "limiter"
             ELSE /\ hits' = hits
                  /\ reached' = reached
                  /\ lastReply'.sender # "limiter"]_vars

\* a client key has used up its window, its next POST was refused, and a
\* PATCH was served since
C14_Witness ==
    /\ \E client \in ClientKeys : reached[client] = max /\ hits[client] > max
    /\ lastReply.method = "PATCH"
    /\ lastReply.sender = "tusServer"

\* C15: the server listens only when the upload directory exists and the
\* write test has passed; when the directory cannot be created or the test
\* file cannot be written or deleted the process never listens, and a
\* process that is not listening has answered no request.
C15_ListenAfterWriteTest ==
    /\ proc \in {"listen", "listening"} =>
          /\ disk.uploadDir = "present"
          /\ disk.writable
          /\ disk.removable
          /\ ~disk.testFile
    /\ (disk.uploadDir = "blocked" \/ ~disk.writable \/ ~disk.removable) =>
          proc \in {"ensureLogsDir", "ensureUploadDir", "stopped"}
    /\ proc # "listening" =>
          /\ lastReply = NoReply
          /\ \A client \in ClientKeys : hits[client] = 0
          /\ ~ENABLED (\E client \in ClientKeys, method \in Methods, outcome \in Outcomes :
                          Request(client, method, outcome))

\* the upload directory was there and the write test failed
C15_Witness ==
    /\ proc = "stopped"
    /\ disk.logsDir = "present"
    /\ disk.uploadDir = "present"
    /\ ~disk.writable

\* C18: when tusServer.handle throws, tusHandler answers 500 if no header
\* was sent and writes nothing if the headers were sent, so that exactly one
\* response head is written either way; the process goes on listening.
C18_HandlerErrorCaught ==
    [][\A client \in ClientKeys, method \in Methods :
          /\ (Request(client, method, "throwsEarly") /\ ~Limited(method, hits[client])) =>
                /\ lastReply'.sender = "tusHandler"
                /\ lastReply'.status = 500
                /\ lastReply'.writes = 1
                /\ proc' = "listening"
          /\ (Request(client, method, "throwsLate") /\ ~Limited(method, hits[client])) =>
                /\ lastReply'.sender = "tusServer"
                /\ lastReply'.writes = 1
                /\ proc' = "listening"]_vars

\* a PATCH threw after its headers were sent, on a server that has handed a
\* POST to tusHandler
C18_Witness ==
    /\ lastReply.thrown
    /\ lastReply.sender = "tusServer"
    /\ lastReply.method = "PATCH"
    /\ \E client \in ClientKeys : reached[client] > 0

\* ======================================================================
\* scripts/cleanup.js: cleanupOldFiles, run beside a live server. Ages are
\* in days; now is taken once, before the loop.
MAX_AGE_DAYS == 30

\* uploads in flight in the directory when the sweep starts
MaxSweepUploads == 1
SweepIds == 1 .. MaxSweepUploads

GitKeep == <<".", "g", "i", "t", "k", "e", "e", "p">>

\* the file a past upload was renamed to, and a directory inside UPLOAD_DIR
FinalizedName == NewFileName(9, << >>)
SubDir == <<"d">>

\* what stat reports of an entry: stats.isFile() and now - stats.mtimeMs
Stat(isFile, age) == [isFile |-> isFile, age |-> age]

\* the ages tried: at the retention window and beyond it
Ages == {MAX_AGE_DAYS, MAX_AGE_DAYS + 1}

\* the record of an upload is written at its creation, so it is at least as
\* old as the partial file, which every chunk touches
UploadAges == {a \in [file : Ages, meta : Ages] : a.meta >= a.file}

PutEntry(d, name, st) == [n \in (DOMAIN d) \cup {name} |-> IF n = name THEN st ELSE d[n]]
DropEntry(d, name) == [n \in (DOMAIN d) \ {name} |-> d[n]]

\* the directories a sweep may find: '.gitkeep', maybe a subdirectory, maybe
\* a finalized file, and for each upload id maybe its partial file and record
RECURSIVE WithUploads(_, _)
WithUploads(D, n) ==
    IF n = 0 THEN D
    ELSE LET E == WithUploads(D, n - 1)
         IN  E \cup {PutEntry(PutEntry(d, IdName(n), Stat(TRUE, a.file)),
                              MetaName(n), Stat(TRUE, a.meta)) : d \in E, a \in UploadAges}

Directories ==
    LET base == {PutEntry(<< >>, GitKeep, Stat(TRUE, age)) : age \in Ages}
        withSub == base \cup {PutEntry(d, SubDir, Stat(FALSE, MAX_AGE_DAYS + 1)) : d \in base}
        withFinal == withSub \cup {PutEntry(d, FinalizedName, Stat(TRUE, age)) :
                                      d \in withSub, age \in Ages}
    IN  WithUploads(withFinal, MaxSweepUploads)

\* every name an entry of UPLOAD_DIR can have
EntryNames ==
    {GitKeep, SubDir, FinalizedName}
       \cup {IdName(id) : id \in SweepIds} \cup {MetaName(id) : id \in SweepIds}
       \cup {NewFileName(id, << >>) : id \in SweepIds}

\* mutant: a file as old as the window is deleted too
IsOld_atWindow(age) == age >= MAX_AGE_DAYS

\* if (age > MAX_AGE_MS)
IsOld(age) == age > MAX_AGE_DAYS

\* mutant: the loop goes on after an error
Running_always(s) == TRUE

\* the for loop runs until it ends or something throws
Running(s) == s.pc = "loop"

\* const files = await fs.readdir(UPLOAD_DIR); listed keeps what the entries
\* were at that moment
Readdir ==
    /\ sweep.pc = "start"
    /\ sweep' = [sweep EXCEPT !.pc = "loop", !.files = DOMAIN uploadDir,
                              !.todo = DOMAIN uploadDir, !.listed = uploadDir]
    /\ UNCHANGED <<uploadDir, serverVars, nameVars, appVars>>

\* One turn of the loop, on the entry file; readdir promises no order, so any
\* entry not yet visited may be the next. '.gitkeep' is skipped. stat throws
\* when the entry is gone or when statOk is false, unlink when unlinkOk is
\* false; a throw leaves the loop for the catch, which calls process.exit(1).
Visit(file, statOk, unlinkOk) ==
    /\ Running(sweep)
    /\ file \in sweep.todo
    /\ IF file = GitKeep
       THEN /\ sweep' = [sweep EXCEPT !.todo = @ \ {file}]
            /\ UNCHANGED uploadDir
       ELSE IF file \notin DOMAIN uploadDir \/ ~statOk
       THEN /\ sweep' = [sweep EXCEPT !.pc = "failed"]
            /\ UNCHANGED uploadDir
       ELSE IF uploadDir[file].isFile /\ IsOld(uploadDir[file].age)
       THEN IF unlinkOk
            THEN /\ uploadDir' = DropEntry(uploadDir, file)
                 /\ sweep' = [sweep EXCEPT !.todo = @ \ {file}, !.deleted = @ \cup {file}]
            ELSE /\ sweep' = [sweep EXCEPT !.pc = "failed"]
                 /\ UNCHANGED uploadDir
       ELSE /\ sweep' = [sweep EXCEPT !.todo = @ \ {file}]
            /\ UNCHANGED uploadDir
    /\ UNCHANGED <<serverVars, nameVars, appVars>>

\* the loop has visited every entry: the summary is printed
Finish ==
    /\ sweep.pc = "loop"
    /\ sweep.todo = {}
    /\ sweep' = [sweep EXCEPT !.pc = "done"]
    /\ UNCHANGED <<uploadDir, serverVars, nameVars, appVars>>

\* the live server's deferred rename of an upload, while the sweep runs:
\* rename(oldFilePath, newFilePath), which keeps the mtime, and unlink of the
\* record
ServerRename(id) ==
    /\ sweep.pc \in {"start", "loop", "failed", "done"}
    /\ IdName(id) \in DOMAIN uploadDir
    /\ uploadDir' = DropEntry(PutEntry(DropEntry(uploadDir, IdName(id)),
                                       NewFileName(id, << >>), uploadDir[IdName(id)]),
                              MetaName(id))
    /\ UNCHANGED <<sweep, serverVars, nameVars, appVars>>

SweepInit ==
    /\ ServerInit
    /\ NameIdle
    /\ AppIdle
    /\ uploadDir \in Directories
    /\ sweep = [NoSweep EXCEPT !.pc = "start"]

SweepNext ==
    \/ Readdir
    \/ \E file \in EntryNames, statOk \in BOOLEAN, unlinkOk \in BOOLEAN :
          Visit(file, statOk, unlinkOk)
    \/ Finish
    \/ \E id \in SweepIds : ServerRename(id)

SweepSpec == SweepInit /\ [][SweepNext]_vars

\* C16: after a sweep no upload in flight is left with only one of its
\* partial file and its record, and the sweep deletes no file of a completed
\* upload.
C16_SweepKeepsPairs ==
    sweep.pc = "done" =>
       /\ \A id \in SweepIds :
             (IdName(id) \in DOMAIN uploadDir) <=> (MetaName(id) \in DOMAIN uploadDir)
       /\ FinalizedName \notin sweep.deleted

\* C17: a sweep that ends without error has deleted exactly the listed
\* regular files older than MAX_AGE_DAYS, '.gitkeep' excepted; '.gitkeep',
\* the directories and the files at most that old are as they were listed,
\* unless the server has renamed them since.
C17_SweepDeletesOld ==
    sweep.pc = "done" =>
       /\ sweep.deleted = {f \in sweep.files \ {GitKeep} :
                              sweep.listed[f].isFile /\ sweep.listed[f].age > MAX_AGE_DAYS}
       /\ \A f \in sweep.deleted : f \notin DOMAIN uploadDir
       /\ \A f \in sweep.files \ sweep.deleted :
             /\ f \in DOMAIN uploadDir => uploadDir[f] = sweep.listed[f]
             /\ f \in {GitKeep, SubDir, FinalizedName} => f \in DOMAIN uploadDir

\* a sweep has ended that deleted the old finalized file and left '.gitkeep',
\* itself older than the window, the subdirectory and a partial file of
\* exactly MAX_AGE_DAYS
C17_Witness ==
    /\ sweep.pc = "done"
    /\ FinalizedName \in sweep.deleted
    /\ GitKeep \in DOMAIN uploadDir
    /\ uploadDir[GitKeep].age > MAX_AGE_DAYS
    /\ SubDir \in DOMAIN uploadDir
    /\ IdName(1) \in DOMAIN uploadDir
    /\ uploadDir[IdName(1)].age = MAX_AGE_DAYS

\* C20: when a stat or unlink throws, the sweep ends there: no further entry
\* is visited, what was deleted stays deleted, and the entries not yet
\* visited are as they were listed, old or not, unless the server has
\* renamed them.
C20_SweepStopsOnError ==
    sweep.pc = "failed" =>
       /\ ~ENABLED (\E file \in EntryNames, statOk \in BOOLEAN, unlinkOk \in BOOLEAN :
                       Visit(file, statOk, unlinkOk))
       /\ ~ENABLED Finish
       /\ \A f \in sweep.deleted : f \notin DOMAIN uploadDir
       /\ \A f \in sweep.todo :
             /\ f \in DOMAIN uploadDir => uploadDir[f] = sweep.listed[f]
             /\ f \in {GitKeep, SubDir, FinalizedName} => f \in DOMAIN uploadDir

\* the sweep deleted a record, then failed on the partial file the server
\* had renamed meanwhile, and left the old finalized file unvisited
C20_Witness ==
    /\ sweep.pc = "failed"
    /\ MetaName(1) \in sweep.deleted
    /\ IdName(1) \in sweep.todo
    /\ IdName(1) \notin DOMAIN uploadDir
    /\ FinalizedName \in sweep.todo
    /\ FinalizedName \in DOMAIN uploadDir
    /\ IsOld(uploadDir[FinalizedName].age)

=============================================================================
